---- MODULE Spec2Model ----
(***************************************************************************)
(* Dutch Parliament attendance backend (src/server.js).                    *)
(*                                                                         *)
(* Three parts of the program are modelled:                                *)
(*   - processAttendanceData, the record flattener     (SpecFlatten)       *)
(*   - buildQuery, the OData query builder             (SpecQuery)         *)
(*   - the express routes, the startup import of node-fetch and the        *)
(*     upstream calls they issue                       (Spec, SpecRoute)   *)
(*                                                                         *)
(* JavaScript values are tagged records, so that undefined, null, the      *)
(* empty string and objects stay distinct.  A string is a sequence of      *)
(* tokens; concatenation and join are sequence concatenation.              *)
(***************************************************************************)
EXTENDS Integers, Sequences, FiniteSets, TLC

VARIABLES
    \* processAttendanceData
    activities,                 \* the argument
    index,                      \* activities already visited by forEach
    attendanceData,             \* the rows pushed so far
    skippedActivities,          \* declared on line 283
    activitiesWithoutActors,    \* declared on line 284
    flattenPc,                  \* "idle" | "loop" | "returned"
    \* buildQuery
    buildArgs,                  \* [endpoint, filters, expands, options] or Undefined
    query,                      \* the URL returned, Undefined before the return
    \* the server
    fetch,                      \* line 12: undefined until node-fetch is loaded
    startup,                    \* position of the async import (lines 13-29)
    requests                    \* the request each handler slot is serving

flattenVars == <<activities, index, attendanceData, skippedActivities,
                 activitiesWithoutActors, flattenPc>>
queryVars == <<buildArgs, query>>
serverVars == <<fetch, startup, requests>>
vars == <<flattenVars, queryVars, serverVars>>

----------------------------------------------------------------------------
(* Bounds *)

MaxActivities == 2
MaxActors == 2
MaxFilters == 2
MaxExpands == 2
MaxOptions == 2
MaxRequests == 2

----------------------------------------------------------------------------
(* JavaScript values *)

Undefined == [t |-> "undefined"]
Null == [t |-> "null"]
Str(tokens) == [t |-> "string", v |-> tokens]
Num(n) == [t |-> "number", n |-> n]
Bool(b) == [t |-> "boolean", b |-> b]
Arr(s) == [t |-> "array", items |-> s]

\* ToBoolean: undefined, null, "", 0 and false are falsy; objects, arrays
\* and Date objects (valid or not) are truthy.
Truthy(x) ==
    CASE x.t = "undefined" -> FALSE
      [] x.t = "null" -> FALSE
      [] x.t = "string" -> x.v # <<>>
      [] x.t = "number" -> x.n # 0
      [] x.t = "boolean" -> x.b
      [] OTHER -> TRUE

\* a || b
OrElse(a, b) == IF Truthy(a) THEN a ELSE b

\* String(x) inside a template literal or Array.prototype.join
ToTokens(x) ==
    CASE x.t = "string" -> x.v
      [] x.t = "number" -> <<ToString(x.n)>>
      [] x.t = "undefined" -> <<"undefined">>
      [] x.t = "null" -> <<"null">>
      [] OTHER -> <<"[object]">>

\* Array.prototype.join on an array of strings (token sequences)
RECURSIVE JoinTokens(_, _)
JoinTokens(parts, sep) ==
    IF parts = <<>> THEN <<>>
    ELSE IF Len(parts) = 1 THEN parts[1]
    ELSE parts[1] \o sep \o JoinTokens(Tail(parts), sep)

\* Mutant: join(' ') without filter(Boolean); join renders null and
\* undefined as the empty string.
JoinWithoutFilter(parts) ==
    Str(JoinTokens([i \in 1..Len(parts) |->
                      IF parts[i].t = "string" THEN parts[i].v ELSE <<>>], <<" ">>))

\* [a, b, c].filter(Boolean).join(' ')
FilterBooleanJoin(parts) ==
    LET kept == SelectSeq(parts, Truthy)
    IN  Str(JoinTokens([i \in 1..Len(kept) |-> ToTokens(kept[i])], <<" ">>))

----------------------------------------------------------------------------
(* Date: the strings new Date(...) is given, and what it makes of them.    *)
(* The instants are rendered in UTC.                                       *)

ValidDateStrings ==
    [x \in {"2024-03-15T14:30:00Z", "2024-03-15"} |->
        IF x = "2024-03-15T14:30:00Z"
        THEN [year |-> 2024, month |-> 3, day |-> 15, hour |-> 14, minute |-> 30]
        ELSE [year |-> 2024, month |-> 3, day |-> 15, hour |-> 0, minute |-> 0]]

NaN == [nan |-> TRUE]

\* new Date(dateStr): a Date object, whose time value is NaN when the string
\* does not parse. The object itself is truthy either way.
NewDate(dateStr) ==
    [t |-> "date",
     time |-> IF dateStr.t = "string" /\ Len(dateStr.v) = 1
                 /\ dateStr.v[1] \in DOMAIN ValidDateStrings
              THEN ValidDateStrings[dateStr.v[1]]
              ELSE NaN]

Pad2(n) == IF n < 10 THEN "0" \o ToString(n) ELSE ToString(n)

\* toLocaleDateString('nl-NL', {year:'numeric', month:'2-digit', day:'2-digit'})
ToLocaleDateString(time) ==
    Str(<<Pad2(time.day), "-", Pad2(time.month), "-", ToString(time.year)>>)

\* toLocaleTimeString('nl-NL', {hour:'2-digit', minute:'2-digit', hour12:false})
ToLocaleTimeString(time) ==
    Str(<<Pad2(time.hour), ":", Pad2(time.minute)>>)

Unknown == Str(<<"Unknown">>)

\* Lines 298-332: startTime, activityDate, activityTime, hasValidDate
ParseStartTime(activity) ==
    LET dateStr == OrElse(activity.Aanvangstijd, activity.Datum)
        startTime == IF Truthy(dateStr) THEN NewDate(dateStr) ELSE Null
        valid == startTime.t = "date" /\ startTime.time # NaN
    IN  [activityDate |-> IF valid THEN ToLocaleDateString(startTime.time) ELSE Unknown,
         activityTime |-> IF valid THEN ToLocaleTimeString(startTime.time) ELSE Unknown,
         hasValidDate |-> Bool(Truthy(startTime))]

----------------------------------------------------------------------------
(* processAttendanceData *)

\* Mutant: the length test is forgotten.
HasNoActors_OnlyAbsent(activity) == ~Truthy(activity.ActiviteitActor)

\* Line 290: !activity.ActiviteitActor || activity.ActiviteitActor.length === 0
HasNoActors(activity) ==
    IF Truthy(activity.ActiviteitActor)
    THEN activity.ActiviteitActor.items = <<>>
    ELSE TRUE

\* Line 335: if (actor.Persoon)
HasPersoon(actor) == Truthy(actor.Persoon)

\* Lines 337-341
FullName(persoon) ==
    FilterBooleanJoin(<<persoon.Voornamen, persoon.Tussenvoegsel, persoon.Achternaam>>)

\* Lines 356-359
LastName(persoon) ==
    FilterBooleanJoin(<<persoon.Tussenvoegsel, persoon.Achternaam>>)

\* Line 344
FractionName(actor) ==
    IF Truthy(actor.Fractie) THEN actor.Fractie.NaamNL ELSE Unknown

\* Line 361
FractionId(actor) ==
    IF Truthy(actor.Fractie) THEN actor.Fractie.Id ELSE Null

\* Lines 346-365: the row pushed for one actor that has a Persoon
AttendanceRecord(activity, actor, date) ==
    [activityId |-> activity.Id,
     activityTitle |-> OrElse(activity.Onderwerp, Str(<<"Unknown Activity">>)),
     activityDate |-> date.activityDate,
     activityTime |-> date.activityTime,
     activityDateTime |-> OrElse(activity.Aanvangstijd, activity.Datum),
     personId |-> actor.Persoon.Id,
     personName |-> FullName(actor.Persoon),
     personInitials |-> OrElse(actor.Persoon.Initialen, Str(<<>>)),
     personFirstName |-> OrElse(actor.Persoon.Voornamen, Str(<<>>)),
     personLastName |-> LastName(actor.Persoon),
     fraction |-> FractionName(actor),
     fractionId |-> FractionId(actor),
     role |-> OrElse(actor.Functie, Str(<<"Participant">>)),
     actorId |-> actor.Id,
     hasValidDate |-> date.hasValidDate]

\* Mutant: the actor loop stops at the first actor without a Persoon.
RECURSIVE ActorRows_StopAtMissing(_, _, _)
ActorRows_StopAtMissing(activity, actors, date) ==
    IF actors = <<>> \/ ~HasPersoon(Head(actors)) THEN <<>>
    ELSE <<AttendanceRecord(activity, Head(actors), date)>>
         \o ActorRows_StopAtMissing(activity, Tail(actors), date)

\* Lines 334-367: activity.ActiviteitActor.forEach(...)
RECURSIVE ActorRows(_, _, _)
ActorRows(activity, actors, date) ==
    IF actors = <<>> THEN <<>>
    ELSE (IF HasPersoon(Head(actors))
          THEN <<AttendanceRecord(activity, Head(actors), date)>>
          ELSE <<>>)
         \o ActorRows(activity, Tail(actors), date)

\* The rows one iteration of the outer forEach pushes (lines 288-368)
ActivityRows(activity) ==
    IF HasNoActors(activity) THEN <<>>
    ELSE ActorRows(activity, activity.ActiviteitActor.items, ParseStartTime(activity))

\* The whole function, as the routes call it
RECURSIVE processAttendanceData(_)
processAttendanceData(acts) ==
    IF acts = <<>> THEN <<>>
    ELSE ActivityRows(Head(acts)) \o processAttendanceData(Tail(acts))

----------------------------------------------------------------------------
(* Inputs of the flattener *)

Jan == Str(<<"Jan">>)
VanDer == Str(<<"van", " ", "der">>)
Berg == Str(<<"Berg">>)
EmptyString == Str(<<>>)

Persoon(voornamen, tussenvoegsel, achternaam) ==
    [t |-> "object", Id |-> Str(<<"persoon-1">>), Initialen |-> Undefined,
     Voornamen |-> voornamen, Tussenvoegsel |-> tussenvoegsel,
     Achternaam |-> achternaam]

Fractie(naam) == [t |-> "object", Id |-> Str(<<"fractie-1">>), NaamNL |-> naam]

Actor(persoon, fractie, functie) ==
    [t |-> "object", Id |-> Undefined, Persoon |-> persoon, Fractie |-> fractie,
     Functie |-> functie]

Activity(aanvangstijd, datum, actors) ==
    [t |-> "object", Id |-> Undefined, Onderwerp |-> Str(<<"Plenair debat">>),
     Aanvangstijd |-> aanvangstijd, Datum |-> datum, ActiviteitActor |-> actors]

\* Upstream identifiers are unique: activity i gets Id i, its actor j gets
\* Id 100 * i + j.
StampActors(i, actors) ==
    IF actors.t = "array"
    THEN Arr([j \in 1..Len(actors.items) |->
                [actors.items[j] EXCEPT !.Id = Num(100 * i + j)]])
    ELSE actors

Stamp(acts) ==
    [i \in 1..Len(acts) |->
        [acts[i] EXCEPT !.Id = Num(i),
                        !.ActiviteitActor = StampActors(i, acts[i].ActiviteitActor)]]

SeqsUpTo(S, n) == UNION {[1..k -> S] : k \in 0..n}

ValidDateTime == Str(<<"2024-03-15T14:30:00Z">>)
ValidDateOnly == Str(<<"2024-03-15">>)
InvalidDateTime == Str(<<"2024-13-45T99:00:00Z">>)
Garbage == Str(<<"onbekend">>)

\* Family 1: the shape of the input. Actors with and without a Persoon, in
\* every arrangement, in activities with absent, null, empty and filled
\* actor collections.
ShapeActors ==
    {Actor(Persoon(Jan, Null, Berg), Fractie(Str(<<"VVD">>)), Undefined),
     Actor(Undefined, Fractie(Str(<<"VVD">>)), Str(<<"Voorzitter">>))}

ShapeActivities ==
    {Activity(ValidDateTime, Undefined, a) :
        a \in {Undefined, Null} \cup {Arr(s) : s \in SeqsUpTo(ShapeActors, MaxActors)}}

\* Family 2: the fields of one actor of one activity.
NameParts(word) == {Undefined, Null, EmptyString, word}

FieldPersons ==
    {Persoon(v, t, a) : v \in NameParts(Jan), t \in NameParts(VanDer),
                        a \in NameParts(Berg)}

FieldFracties ==
    {Undefined, Null, Fractie(Str(<<"VVD">>)), Fractie(Undefined), Fractie(Null)}

FieldActors ==
    {Actor(p, f, r) : p \in FieldPersons \cup {Undefined, Null}, f \in FieldFracties,
                      r \in {Undefined, Str(<<"Voorzitter">>)}}

FieldActivities ==
    {Activity(t, d, Arr(<<a>>)) :
        t \in {Undefined, Null, EmptyString, ValidDateTime, InvalidDateTime, Garbage},
        d \in {Undefined, ValidDateOnly, Garbage},
        a \in FieldActors}

FlattenInputs ==
    {Stamp(s) : s \in SeqsUpTo(ShapeActivities, MaxActivities)}
    \cup {Stamp(<<a>>) : a \in FieldActivities}

----------------------------------------------------------------------------
(* SpecFlatten: one call of processAttendanceData, one forEach iteration   *)
(* per step.                                                               *)

FlattenInit ==
    /\ activities \in FlattenInputs
    /\ index = 0
    /\ attendanceData = <<>>
    /\ skippedActivities = 0
    /\ activitiesWithoutActors = 0
    /\ flattenPc = "loop"
    /\ buildArgs = Undefined
    /\ query = Undefined
    /\ fetch = Undefined
    /\ startup = "idle"
    /\ requests = <<>>

\* Lines 290-296: the iteration of an activity without actors
SkipActivity ==
    /\ flattenPc = "loop"
    /\ index < Len(activities)
    /\ HasNoActors(activities[index + 1])
    /\ activitiesWithoutActors' = activitiesWithoutActors + 1
    /\ index' = index + 1
    /\ UNCHANGED <<activities, attendanceData, skippedActivities, flattenPc>>
    /\ UNCHANGED <<queryVars, serverVars>>

\* Lines 298-367: the iteration of an activity with actors
FlattenActivity ==
    /\ flattenPc = "loop"
    /\ index < Len(activities)
    /\ ~HasNoActors(activities[index + 1])
    /\ attendanceData' = attendanceData \o ActivityRows(activities[index + 1])
    /\ index' = index + 1
    /\ UNCHANGED <<activities, skippedActivities, activitiesWithoutActors, flattenPc>>
    /\ UNCHANGED <<queryVars, serverVars>>

\* Line 375: return attendanceData
FlattenReturn ==
    /\ flattenPc = "loop"
    /\ index = Len(activities)
    /\ flattenPc' = "returned"
    /\ UNCHANGED <<activities, index, attendanceData, skippedActivities,
                   activitiesWithoutActors>>
    /\ UNCHANGED <<queryVars, serverVars>>

FlattenNext == SkipActivity \/ FlattenActivity \/ FlattenReturn

SpecFlatten == FlattenInit /\ [][FlattenNext]_vars

----------------------------------------------------------------------------
(* buildQuery *)

\* Line 37
BASE_API_URL == <<"https://gegevensmagazijn.tweedekamer.nl/OData/v4/2.0">>

\* An options object: its own keys in insertion order (Object.keys, line 55),
\* each with its value.
Option(key, value) == [key |-> key, value |-> value]

\* Mutant: the test is written if (options[key]), which drops 0 and ''.
OptionKept_Truthy(value) == Truthy(value)

\* Line 56: options[key] !== undefined && options[key] !== null
OptionKept(value) == value # Undefined /\ value # Null

\* Lines 55-59
RECURSIVE OptionParams(_)
OptionParams(options) ==
    IF options = <<>> THEN <<>>
    ELSE (IF OptionKept(Head(options).value)
          THEN << <<"$" \o Head(options).key, "=">> \o ToTokens(Head(options).value) >>
          ELSE <<>>)
         \o OptionParams(Tail(options))

\* Lines 40-69. params is never empty (line 62), so line 64 always appends.
buildQuery(endpoint, filters, expands, options) ==
    LET params ==
            (IF Len(filters) > 0
             THEN << <<"$filter", "=">> \o JoinTokens(filters, <<" and ">>) >>
             ELSE <<>>)
            \o (IF Len(expands) > 0
                THEN << <<"$expand", "=">> \o JoinTokens(expands, <<",">>) >>
                ELSE <<>>)
            \o OptionParams(options)
            \o << <<"$format", "=", "json">> >>
    IN  BASE_API_URL \o <<"/">> \o endpoint \o <<"?">> \o JoinTokens(params, <<"&">>)

----------------------------------------------------------------------------
(* Inputs of buildQuery *)

BaseFilter == <<"verwijderd eq false">>
ActorExpand == <<"ActiviteitActor($expand=Persoon,Fractie)">>

FilterPool == {BaseFilter, <<"aanvangstijd ge ", "2024-01-01", "T00:00:00Z">>}
ExpandPool == {ActorExpand}
OptionKeys == {"top", "skip", "filter", "expand", "format"}
OptionValues == {Undefined, Null, Num(0), Str(<<"true">>)}

\* Objects have each key once.
OptionObjects(n) ==
    {o \in SeqsUpTo({Option(k, v) : k \in OptionKeys, v \in OptionValues}, n) :
        \A i, j \in 1..Len(o) : i # j => o[i].key # o[j].key}

BuildArgs(filters, expands, options) ==
    [endpoint |-> <<"Activiteit">>, filters |-> filters, expands |-> expands,
     options |-> options]

\* Family 1: every options object, with and without a filter and an expand.
\* Family 2: every list of filters and of expands, with the options of the
\* example call {top: 10, skip: 0} and with none.
QueryInputs ==
    {BuildArgs(f, e, o) : f \in {<<>>, <<BaseFilter>>}, e \in {<<>>, <<ActorExpand>>},
                          o \in OptionObjects(MaxOptions)}
    \cup {BuildArgs(f, e, o) : f \in SeqsUpTo(FilterPool, MaxFilters),
                               e \in SeqsUpTo(ExpandPool, MaxExpands),
                               o \in {<<>>, <<Option("top", Num(10)), Option("skip", Num(0))>>}}

----------------------------------------------------------------------------
(* SpecQuery: one call of buildQuery *)

QueryInit ==
    /\ buildArgs \in QueryInputs
    /\ query = Undefined
    /\ activities = <<>>
    /\ index = 0
    /\ attendanceData = <<>>
    /\ skippedActivities = 0
    /\ activitiesWithoutActors = 0
    /\ flattenPc = "idle"
    /\ fetch = Undefined
    /\ startup = "idle"
    /\ requests = <<>>

\* Lines 40-69
BuildQueryCall ==
    /\ query = Undefined
    /\ buildArgs # Undefined
    /\ query' = Str(buildQuery(buildArgs.endpoint, buildArgs.filters,
                               buildArgs.expands, buildArgs.options))
    /\ UNCHANGED <<buildArgs, flattenVars, serverVars>>

QueryNext == BuildQueryCall

SpecQuery == QueryInit /\ [][QueryNext]_vars

----------------------------------------------------------------------------
(* The server: startup import, routes, upstream calls *)

DefaultLimit == 1000
DefaultSkip == 0
SampleTop == 100

\* The function fetch is bound to: the default export of node-fetch v3, or
\* the module node-fetch v2
ImportedFetch == [t |-> "function", from |-> "import"]
RequiredFetch == [t |-> "function", from |-> "require"]

\* Mutant: the guard is dropped.
CheckFetchThrows_Never(f) == FALSE

\* Lines 72-76: checkFetch throws iff !fetch
CheckFetchThrows(f) == ~Truthy(f)

NotLoadedMessage == <<"Fetch module not yet loaded. Please wait and try again.">>

\* Line 126 and line 200
ApiFailedMessage(reply) ==
    <<"API request failed: ", ToString(reply.status), " ", reply.statusText>>

\* error.message of what fetch, response.json() and a property read of null
\* throw
TransportMessage == <<"request to upstream failed">>
JsonMessage == <<"invalid json response body">>
TypeErrorMessage == <<"Cannot read properties of null">>

\* parseInt: the number itself, or the value of the leading decimal digits
\* of a string (written one character per token), NaN when there are none.
DigitValue(c) ==
    CASE c = "0" -> 0 [] c = "1" -> 1 [] c = "2" -> 2 [] c = "3" -> 3
      [] c = "4" -> 4 [] c = "5" -> 5 [] c = "6" -> 6 [] c = "7" -> 7
      [] c = "8" -> 8 [] c = "9" -> 9

IsDigit(c) == c \in {"0", "1", "2", "3", "4", "5", "6", "7", "8", "9"}

RECURSIVE DigitsValue(_, _)
DigitsValue(tokens, acc) ==
    IF tokens = <<>> \/ ~IsDigit(Head(tokens)) THEN acc
    ELSE DigitsValue(Tail(tokens), 10 * acc + DigitValue(Head(tokens)))

ParseInt(x) ==
    IF x.t = "number" THEN x
    ELSE IF x.t = "string" /\ x.v # <<>> /\ IsDigit(x.v[1]) THEN Num(DigitsValue(x.v, 0))
    ELSE NaN

\* req.query / req.params of one request
Params(dateFrom, dateTo, activityType, limit, skip, id) ==
    [dateFrom |-> dateFrom, dateTo |-> dateTo, activityType |-> activityType,
     limit |-> limit, skip |-> skip, id |-> id]

\* Lines 93-106 and 226-239
RouteFilters(params) ==
    <<BaseFilter>>
    \o (IF Truthy(params.dateFrom)
        THEN << <<"aanvangstijd ge ">> \o ToTokens(params.dateFrom) \o <<"T00:00:00Z">> >>
        ELSE <<>>)
    \o (IF Truthy(params.dateTo)
        THEN << <<"aanvangstijd le ">> \o ToTokens(params.dateTo) \o <<"T23:59:59Z">> >>
        ELSE <<>>)
    \o (IF Truthy(params.activityType)
        THEN << <<"contains(tolower(onderwerp), tolower('">>
                \o ToTokens(params.activityType) \o <<"'))">> >>
        ELSE <<>>)

\* Lines 83-89: destructuring defaults apply to undefined only
Limit(params) == IF params.limit = Undefined THEN Num(DefaultLimit) ELSE params.limit
Skip(params) == IF params.skip = Undefined THEN Num(DefaultSkip) ELSE params.skip

\* Lines 109-118
AttendanceQuery(params) ==
    Str(buildQuery(<<"Activiteit">>, RouteFilters(params), <<ActorExpand>>,
                   <<Option("top", Limit(params)), Option("skip", Skip(params)),
                     Option("orderby", Str(<<"aanvangstijd desc">>))>>))

\* Line 153
AttendanceCountQuery(params) ==
    Str(buildQuery(<<"Activiteit">>, RouteFilters(params), <<>>,
                   <<Option("count", Str(<<"true">>))>>))

\* Line 151: skip === 0 || skip === '0'
CountWanted(params) == Skip(params) = Num(0) \/ Skip(params) = Str(<<"0">>)

\* Lines 193-195
ActivityQuery(params) ==
    Str(buildQuery(<<"Activiteit/">> \o ToTokens(params.id), <<>>, <<ActorExpand>>, <<>>))

\* Line 242
StatsCountQuery(params) ==
    Str(buildQuery(<<"Activiteit">>, RouteFilters(params), <<>>,
                   <<Option("count", Str(<<"true">>)), Option("top", Num(0))>>))

\* Mutant: the second fetch of /api/stats is given the count query again.
StatsSampleQuery_Repeats(params) == StatsCountQuery(params)

\* Lines 247-249
StatsSampleQuery(params) ==
    Str(buildQuery(<<"Activiteit">>, RouteFilters(params),
                   << <<"ActiviteitActor($filter=relatie eq 'Deelnemer';$expand=Persoon,Fractie)">> >>,
                   <<Option("top", Num(SampleTop))>>))

\* What an upstream call comes back with: fetch rejects, or a response with
\* a status and a body that is JSON text or not.
Unparsable == [t |-> "unparsable"]
Throws == [kind |-> "throw", status |-> 0, statusText |-> "", ok |-> FALSE,
           body |-> Undefined]
Response(status, statusText, body) ==
    [kind |-> "response", status |-> status, statusText |-> statusText,
     ok |-> (status >= 200 /\ status <= 299), body |-> body]

\* A JSON object of the upstream service: a collection page and its count
Json(value, count) == [t |-> "object", value |-> value, count |-> count]

\* await response.json(): the parsed body, or a throw
JsonThrows(reply) == reply.body = Unparsable

\* One request slot
IdleSlot ==
    [pc |-> "idle", route |-> "", params |-> Undefined, fetchAtEntry |-> Undefined,
     calls |-> <<>>, replies |-> <<>>, data |-> Undefined, rows |-> <<>>,
     res |-> Undefined]

Res(status, body) == [status |-> status, body |-> body]

\* Lines 178-182, 212-215, 273-276: the catch block of a route
ErrorResponse(route, message) ==
    Res(500, [success |-> FALSE, error |-> Str(message),
              details |-> IF route = "attendance"
                          THEN Str(<<"Failed to fetch attendance data from Dutch Parliament API">>)
                          ELSE Undefined])

Respond(r, slot, res) ==
    requests' = [requests EXCEPT ![r] = [slot EXCEPT !.pc = "responded", !.res = res]]

Running == startup # "exited" /\ startup # "idle"

\* Lines 13-17: the dynamic import resolves
ImportResolves ==
    /\ startup = "importing"
    /\ fetch' = ImportedFetch
    /\ startup' = "loaded"
    /\ UNCHANGED <<requests, flattenVars, queryVars>>

\* Lines 18-21: the import rejects and require('node-fetch') succeeds
ImportRejectsRequireLoads ==
    /\ startup = "importing"
    /\ fetch' = RequiredFetch
    /\ startup' = "loaded"
    /\ UNCHANGED <<requests, flattenVars, queryVars>>

\* Lines 22-26: both fail, process.exit(1)
ImportRejectsExit ==
    /\ startup = "importing"
    /\ startup' = "exited"
    /\ UNCHANGED <<fetch, requests, flattenVars, queryVars>>

\* Lines 79-123: /api/attendance up to the first await
ReceiveAttendance(r, params) ==
    /\ Running
    /\ requests[r].pc = "idle"
    /\ LET slot == [IdleSlot EXCEPT !.route = "attendance", !.params = params,
                                    !.fetchAtEntry = Bool(Truthy(fetch))]
       IN  IF CheckFetchThrows(fetch)
           THEN Respond(r, slot, ErrorResponse("attendance", NotLoadedMessage))
           ELSE requests' = [requests EXCEPT ![r] =
                    [slot EXCEPT !.pc = "awaitData",
                                 !.calls = <<AttendanceQuery(params)>>]]
    /\ UNCHANGED <<fetch, startup, flattenVars, queryVars>>

\* Lines 164-174
AttendanceSuccess(slot, totalCount) ==
    Res(200, [success |-> TRUE,
              data |-> slot.rows,
              metadata |-> [totalActivities |->
                                IF Truthy(slot.data.value)
                                THEN Num(Len(slot.data.value.items)) ELSE Num(0),
                            totalRegistrations |-> Num(Len(slot.rows)),
                            totalCount |-> totalCount,
                            skip |-> ParseInt(Skip(slot.params)),
                            limit |-> ParseInt(Limit(slot.params))]])

\* Lines 123-162: the data query has come back
AttendanceData(r, reply) ==
    /\ Running
    /\ requests[r].pc = "awaitData"
    /\ LET slot == [requests[r] EXCEPT !.replies = @ \o <<reply>>]
       IN  IF reply.kind = "throw"
           THEN Respond(r, slot, ErrorResponse("attendance", TransportMessage))
           ELSE IF ~reply.ok
           THEN Respond(r, slot, ErrorResponse("attendance", ApiFailedMessage(reply)))
           ELSE IF JsonThrows(reply)
           THEN Respond(r, slot, ErrorResponse("attendance", JsonMessage))
           ELSE IF reply.body = Null
           THEN Respond(r, slot, ErrorResponse("attendance", TypeErrorMessage))
           ELSE LET rows == processAttendanceData(OrElse(reply.body.value, Arr(<<>>)).items)
                    got == [slot EXCEPT !.data = reply.body, !.rows = rows]
                IN  IF CountWanted(slot.params)
                    THEN requests' = [requests EXCEPT ![r] =
                             [got EXCEPT !.pc = "awaitCount",
                                         !.calls = @ \o <<AttendanceCountQuery(slot.params)>>]]
                    ELSE Respond(r, got, AttendanceSuccess(got, Null))
    /\ UNCHANGED <<fetch, startup, flattenVars, queryVars>>

NoError == <<>>

\* Lines 153-158: the body of the inner try
CountAttempt(reply) ==
    IF reply.kind = "throw" THEN [error |-> TransportMessage, totalCount |-> Null]
    ELSE IF ~reply.ok THEN [error |-> NoError, totalCount |-> Null]
    ELSE IF JsonThrows(reply) THEN [error |-> JsonMessage, totalCount |-> Null]
    ELSE IF reply.body = Null THEN [error |-> TypeErrorMessage, totalCount |-> Null]
    ELSE [error |-> NoError, totalCount |-> reply.body.count]

\* Mutant: no inner catch, the error reaches the catch of the route.
CountCatch_Rethrows(attempt) == attempt

\* Lines 159-161: the inner catch only warns
CountCatch(attempt) == [attempt EXCEPT !.error = NoError]

\* Lines 154-174: the count query has come back
AttendanceCount(r, reply) ==
    /\ Running
    /\ requests[r].pc = "awaitCount"
    /\ LET slot == [requests[r] EXCEPT !.replies = @ \o <<reply>>]
           count == CountCatch(CountAttempt(reply))
       IN  IF count.error # NoError
           THEN Respond(r, slot, ErrorResponse("attendance", count.error))
           ELSE Respond(r, slot, AttendanceSuccess(slot, count.totalCount))
    /\ UNCHANGED <<fetch, startup, flattenVars, queryVars>>

\* Lines 187-197: /api/activity/:id up to the await
ReceiveActivity(r, params) ==
    /\ Running
    /\ requests[r].pc = "idle"
    /\ LET slot == [IdleSlot EXCEPT !.route = "activity", !.params = params,
                                    !.fetchAtEntry = Bool(Truthy(fetch))]
       IN  IF CheckFetchThrows(fetch)
           THEN Respond(r, slot, ErrorResponse("activity", NotLoadedMessage))
           ELSE requests' = [requests EXCEPT ![r] =
                    [slot EXCEPT !.pc = "awaitActivity",
                                 !.calls = <<ActivityQuery(params)>>]]
    /\ UNCHANGED <<fetch, startup, flattenVars, queryVars>>

\* Lines 197-208
ActivityReply(r, reply) ==
    /\ Running
    /\ requests[r].pc = "awaitActivity"
    /\ LET slot == [requests[r] EXCEPT !.replies = @ \o <<reply>>]
       IN  IF reply.kind = "throw"
           THEN Respond(r, slot, ErrorResponse("activity", TransportMessage))
           ELSE IF ~reply.ok
           THEN Respond(r, slot, ErrorResponse("activity", ApiFailedMessage(reply)))
           ELSE IF JsonThrows(reply)
           THEN Respond(r, slot, ErrorResponse("activity", JsonMessage))
           ELSE Respond(r, [slot EXCEPT !.data = reply.body],
                        Res(200, [success |-> TRUE, data |-> reply.body]))
    /\ UNCHANGED <<fetch, startup, flattenVars, queryVars>>

\* Lines 220-243: /api/stats up to the first await
ReceiveStats(r, params) ==
    /\ Running
    /\ requests[r].pc = "idle"
    /\ LET slot == [IdleSlot EXCEPT !.route = "stats", !.params = params,
                                    !.fetchAtEntry = Bool(Truthy(fetch))]
       IN  IF CheckFetchThrows(fetch)
           THEN Respond(r, slot, ErrorResponse("stats", NotLoadedMessage))
           ELSE requests' = [requests EXCEPT ![r] =
                    [slot EXCEPT !.pc = "awaitStatsCount",
                                 !.calls = <<StatsCountQuery(params)>>]]
    /\ UNCHANGED <<fetch, startup, flattenVars, queryVars>>

\* Lines 243-251: the count reply; response.ok is not looked at
StatsCountReply(r, reply) ==
    /\ Running
    /\ requests[r].pc = "awaitStatsCount"
    /\ LET slot == [requests[r] EXCEPT !.replies = @ \o <<reply>>]
       IN  IF reply.kind = "throw"
           THEN Respond(r, slot, ErrorResponse("stats", TransportMessage))
           ELSE IF JsonThrows(reply)
           THEN Respond(r, slot, ErrorResponse("stats", JsonMessage))
           ELSE requests' = [requests EXCEPT ![r] =
                    [slot EXCEPT !.pc = "awaitSample", !.data = reply.body,
                                 !.calls = @ \o <<StatsSampleQuery(slot.params)>>]]
    /\ UNCHANGED <<fetch, startup, flattenVars, queryVars>>

\* Lines 251-269: the sample reply; response.ok is not looked at
StatsSampleReply(r, reply) ==
    /\ Running
    /\ requests[r].pc = "awaitSample"
    /\ LET slot == [requests[r] EXCEPT !.replies = @ \o <<reply>>]
           activityData == requests[r].data
       IN  IF reply.kind = "throw"
           THEN Respond(r, slot, ErrorResponse("stats", TransportMessage))
           ELSE IF JsonThrows(reply)
           THEN Respond(r, slot, ErrorResponse("stats", JsonMessage))
           ELSE IF reply.body = Null \/ activityData = Null
           THEN Respond(r, slot, ErrorResponse("stats", TypeErrorMessage))
           ELSE LET rows == processAttendanceData(OrElse(reply.body.value, Arr(<<>>)).items)
                IN  Respond(r, [slot EXCEPT !.rows = rows],
                        Res(200, [success |-> TRUE,
                                  stats |-> [totalActivities |->
                                                 OrElse(activityData.count, Num(0)),
                                             sampleRegistrations |-> Num(Len(rows)),
                                             uniquePeopleInSample |->
                                                 Num(Cardinality({rows[k].personId :
                                                                    k \in 1..Len(rows)})),
                                             uniqueFractionsInSample |->
                                                 Num(Cardinality({rows[k].fraction :
                                                                    k \in 1..Len(rows)}))]]))
    /\ UNCHANGED <<fetch, startup, flattenVars, queryVars>>

\* Lines 379-386: /api/health
Health(r) ==
    /\ Running
    /\ requests[r].pc = "idle"
    /\ Respond(r, [IdleSlot EXCEPT !.route = "health",
                                   !.fetchAtEntry = Bool(Truthy(fetch))],
               Res(200, [success |-> TRUE, fetchAvailable |-> Bool(Truthy(fetch))]))
    /\ UNCHANGED <<fetch, startup, flattenVars, queryVars>>

\* The response has been sent and the handler is over; the slot serves the
\* next request.
HandlerDone(r) ==
    /\ Running
    /\ requests[r].pc = "responded"
    /\ requests' = [requests EXCEPT ![r] = IdleSlot]
    /\ UNCHANGED <<fetch, startup, flattenVars, queryVars>>

----------------------------------------------------------------------------
(* Inputs of the server *)

\* Two activities, one without actors; two actors, one without a Persoon
SamplePage ==
    Arr(Stamp(<<Activity(ValidDateTime, Undefined, Arr(<<>>)),
                Activity(ValidDateTime, Undefined,
                         Arr(<<Actor(Undefined, Undefined, Undefined),
                               Actor(Persoon(Jan, Null, Berg), Fractie(Str(<<"VVD">>)),
                                     Undefined)>>))>>))

NoParams == Params(Undefined, Undefined, Undefined, Undefined, Undefined, Undefined)

\* Spec: requests in flight together, few inputs
FewAttendanceParams ==
    {NoParams, [NoParams EXCEPT !.skip = Str(<<"5", "0">>)],
     [NoParams EXCEPT !.dateFrom = Str(<<"2024-01-01">>)]}
FewFilterParams == {NoParams}
FewIds == {[NoParams EXCEPT !.id = Str(<<"a7fbfbe6">>)]}
FewReplies ==
    {Throws,
     Response(503, "Service Unavailable", Unparsable),
     Response(200, "OK", Json(SamplePage, Num(42)))}

\* SpecRoute: one request at a time, every combination of parameters
OptionalDate(d) == {Undefined, Str(<<d>>)}
AllFilterParams ==
    {[NoParams EXCEPT !.dateFrom = f, !.dateTo = u, !.activityType = a] :
        f \in OptionalDate("2024-01-01"), u \in OptionalDate("2024-12-31"),
        a \in {Undefined, Str(<<"debat">>)}}
SkipValues ==
    {Undefined, Str(<<"0">>), Str(<<"0", "0">>), Str(<<"5", "0">>), Str(<<"a">>),
     EmptyString}
AllAttendanceParams ==
    {[p EXCEPT !.skip = s, !.limit = l] :
        p \in AllFilterParams, s \in SkipValues, l \in {Undefined, Str(<<"1", "0">>)}}
AllReplies ==
    {Throws}
    \cup {Response(503, "Service Unavailable", b) :
            b \in {Unparsable, Json(Undefined, Undefined)}}
    \cup {Response(200, "OK", b) :
            b \in {Unparsable, Null, Json(Undefined, Undefined),
                   Json(SamplePage, Num(42))}}

----------------------------------------------------------------------------
(* Spec and SpecRoute *)

ServerInit(slots) ==
    /\ fetch = Undefined
    /\ startup = "importing"
    /\ requests = [r \in slots |-> IdleSlot]
    /\ buildArgs = Undefined
    /\ query = Undefined
    /\ activities = <<>>
    /\ index = 0
    /\ attendanceData = <<>>
    /\ skippedActivities = 0
    /\ activitiesWithoutActors = 0
    /\ flattenPc = "idle"

Init == ServerInit(1..MaxRequests)

Next ==
    \/ ImportResolves
    \/ ImportRejectsRequireLoads
    \/ ImportRejectsExit
    \/ \E r \in DOMAIN requests, p \in FewAttendanceParams : ReceiveAttendance(r, p)
    \/ \E r \in DOMAIN requests, reply \in FewReplies : AttendanceData(r, reply)
    \/ \E r \in DOMAIN requests, reply \in FewReplies : AttendanceCount(r, reply)
    \/ \E r \in DOMAIN requests, p \in FewIds : ReceiveActivity(r, p)
    \/ \E r \in DOMAIN requests, reply \in FewReplies : ActivityReply(r, reply)
    \/ \E r \in DOMAIN requests, p \in FewFilterParams : ReceiveStats(r, p)
    \/ \E r \in DOMAIN requests, reply \in FewReplies : StatsCountReply(r, reply)
    \/ \E r \in DOMAIN requests, reply \in FewReplies : StatsSampleReply(r, reply)
    \/ \E r \in DOMAIN requests : Health(r)
    \/ \E r \in DOMAIN requests : HandlerDone(r)

Spec == Init /\ [][Next]_vars

RouteInit == ServerInit({1})

RouteNext ==
    \/ ImportResolves
    \/ ImportRejectsRequireLoads
    \/ ImportRejectsExit
    \/ \E r \in DOMAIN requests, p \in AllAttendanceParams : ReceiveAttendance(r, p)
    \/ \E r \in DOMAIN requests, reply \in AllReplies : AttendanceData(r, reply)
    \/ \E r \in DOMAIN requests, reply \in AllReplies : AttendanceCount(r, reply)
    \/ \E r \in DOMAIN requests, p \in FewIds : ReceiveActivity(r, p)
    \/ \E r \in DOMAIN requests, reply \in AllReplies : ActivityReply(r, reply)
    \/ \E r \in DOMAIN requests, p \in AllFilterParams : ReceiveStats(r, p)
    \/ \E r \in DOMAIN requests, reply \in AllReplies : StatsCountReply(r, reply)
    \/ \E r \in DOMAIN requests, reply \in AllReplies : StatsSampleReply(r, reply)
    \/ \E r \in DOMAIN requests : Health(r)
    \/ \E r \in DOMAIN requests : HandlerDone(r)

SpecRoute == RouteInit /\ [][RouteNext]_vars

----------------------------------------------------------------------------
(* Properties of processAttendanceData                                     *)
(*                                                                         *)
(* The properties say what an actor-less activity, an attached Persoon and *)
(* a present name part are in terms of the input alone, not of the         *)
(* flattener's own tests.                                                  *)

ActorsAbsentOrEmpty(activity) ==
    \/ activity.ActiviteitActor.t \in {"undefined", "null"}
    \/ activity.ActiviteitActor = Arr(<<>>)

PersoonAttached(actor) == actor.Persoon.t = "object"

\* The (activity, actor) pairs among the first n activities whose actor has
\* a Persoon
PersonPairs(n) ==
    UNION {{<<i, j>> : j \in {k \in 1..Len(activities[i].ActiviteitActor.items) :
                                PersoonAttached(activities[i].ActiviteitActor.items[k])}} :
           i \in {h \in 1..n : ~ActorsAbsentOrEmpty(activities[h])}}

\* The position of pair p among the pairs S, activities first, then actors
Rank(p, S) ==
    Cardinality({q \in S : q[1] < p[1] \/ (q[1] = p[1] /\ q[2] < p[2])}) + 1

\* The activity and the actor a row was made of (identifiers are unique)
RowActivity(row) == activities[row.activityId.n]
RowActor(row) ==
    RowActivity(row).ActiviteitActor.items[row.actorId.n - 100 * row.activityId.n]

\* C1: after any number of forEach iterations, and so at the return, the
\* rows are exactly the (activity, actor) pairs whose actor has a Persoon,
\* one row per pair, in input order; an actor without a Persoon has no row,
\* whatever its Fractie, Functie and Id are.
C1_OneRowPerPersonActor ==
    LET S == PersonPairs(index)
    IN  /\ Len(attendanceData) = Cardinality(S)
        /\ \A p \in S :
             LET row == attendanceData[Rank(p, S)]
                 actor == activities[p[1]].ActiviteitActor.items[p[2]]
             IN  /\ row.activityId = activities[p[1]].Id
                 /\ row.actorId = actor.Id
                 /\ row.personId = actor.Persoon.Id

\* C1 witness: the function has returned on two activities, one of which
\* holds an actor with a Persoon after an actor without one that still has
\* a Fractie and a Functie.
C1_Witness ==
    /\ flattenPc = "returned"
    /\ Len(activities) = 2
    /\ Len(attendanceData) = 2
    /\ \E i \in 1..2 :
         /\ activities[i].ActiviteitActor.t = "array"
         /\ Len(activities[i].ActiviteitActor.items) = 2
         /\ ~PersoonAttached(activities[i].ActiviteitActor.items[1])
         /\ activities[i].ActiviteitActor.items[1].Fractie.t = "object"
         /\ activities[i].ActiviteitActor.items[1].Functie.t = "string"
         /\ PersoonAttached(activities[i].ActiviteitActor.items[2])

\* C2: after any number of forEach iterations, and so at the return, the
\* counter of skipped activities equals the number of visited activities
\* whose actor collection is absent or empty (each adds exactly one, the
\* others add nothing), and no row comes from such an activity.
C2_SkippedCounter ==
    /\ activitiesWithoutActors =
         Cardinality({i \in 1..index : ActorsAbsentOrEmpty(activities[i])})
    /\ \A k \in 1..Len(attendanceData) :
         ~ActorsAbsentOrEmpty(RowActivity(attendanceData[k]))

\* C2 witness: returned with one activity skipped for an empty actor array
\* and one flattened.
C2_Witness ==
    /\ flattenPc = "returned"
    /\ Len(activities) = 2
    /\ activities[1].ActiviteitActor = Arr(<<>>)
    /\ ~ActorsAbsentOrEmpty(activities[2])
    /\ activitiesWithoutActors = 1
    /\ Len(attendanceData) > 0

\* The date source of an activity parses to a valid instant
DateSourceParses(activity) ==
    LET src == IF activity.Aanvangstijd.t = "string" /\ activity.Aanvangstijd.v # <<>>
               THEN activity.Aanvangstijd
               ELSE activity.Datum
    IN  /\ src.t = "string"
        /\ src.v \in {<<"2024-03-15T14:30:00Z">>, <<"2024-03-15">>}

\* C3: every row of an activity whose date source is missing or does not
\* parse has activityDate = activityTime = "Unknown" and hasValidDate =
\* false; every row of an activity whose date source parses has both fields
\* non-"Unknown" and hasValidDate = true.
C3_DateFlag ==
    \A k \in 1..Len(attendanceData) :
        LET row == attendanceData[k]
        IN  IF DateSourceParses(RowActivity(row))
            THEN /\ row.activityDate # Unknown
                 /\ row.activityTime # Unknown
                 /\ row.hasValidDate = Bool(TRUE)
            ELSE /\ row.activityDate = Unknown
                 /\ row.activityTime = Unknown
                 /\ row.hasValidDate = Bool(FALSE)

\* A name part that is a non-empty string
Present(part) == part.t = "string" /\ part.v # <<>>

SpaceJoined2(a, b) ==
    IF Present(a) /\ Present(b) THEN a.v \o <<" ">> \o b.v
    ELSE IF Present(a) THEN a.v
    ELSE IF Present(b) THEN b.v
    ELSE <<>>

SpaceJoined3(a, b, c) == SpaceJoined2(Str(SpaceJoined2(a, b)), c)

NoStraySpace(tokens) ==
    \/ tokens = <<>>
    \/ /\ tokens[1] # " "
       /\ tokens[Len(tokens)] # " "
       /\ \A i \in 1..(Len(tokens) - 1) : ~(tokens[i] = " " /\ tokens[i + 1] = " ")

\* C10: in every row, personName is Voornamen, Tussenvoegsel, Achternaam in
\* that order joined by single spaces with the null, absent and empty parts
\* left out, personLastName is the same of Tussenvoegsel and Achternaam, and
\* neither starts or ends with a space or holds two spaces in a row.
C10_Names ==
    \A k \in 1..Len(attendanceData) :
        LET row == attendanceData[k]
            p == RowActor(row).Persoon
        IN  /\ row.personName =
                 Str(SpaceJoined3(p.Voornamen, p.Tussenvoegsel, p.Achternaam))
            /\ row.personLastName = Str(SpaceJoined2(p.Tussenvoegsel, p.Achternaam))
            /\ NoStraySpace(row.personName.v)
            /\ NoStraySpace(row.personLastName.v)

\* C10 witness: (Jan, null, Berg) has given "Jan Berg" and last name "Berg".
C10_Witness ==
    /\ flattenPc = "returned"
    /\ Len(attendanceData) = 1
    /\ RowActor(attendanceData[1]).Persoon.Voornamen = Jan
    /\ RowActor(attendanceData[1]).Persoon.Tussenvoegsel = Null
    /\ RowActor(attendanceData[1]).Persoon.Achternaam = Berg
    /\ attendanceData[1].personName = Str(<<"Jan", " ", "Berg">>)
    /\ attendanceData[1].personLastName = Berg

\* C11: in every row, fraction is the NaamNL of the actor's Fractie when
\* that name is present and "Unknown" otherwise, also when a Fractie is
\* attached without a name; an actor without a Fractie has fraction
\* "Unknown" and fractionId null; fraction is never undefined, null or
\* empty.
C11_FractionDefault ==
    \A k \in 1..Len(attendanceData) :
        LET row == attendanceData[k]
            fractie == RowActor(row).Fractie
        IN  /\ row.fraction =
                 (IF fractie.t = "object" /\ Present(fractie.NaamNL)
                  THEN fractie.NaamNL ELSE Unknown)
            /\ fractie.t # "object" => row.fractionId = Null
            /\ Present(row.fraction)

----------------------------------------------------------------------------
(* Properties of buildQuery. A URL is read back the way a server reads it: *)
(* the part after "?" is cut at "&", each piece is name = value.           *)

\* The pieces of a token sequence cut at every token sep
RECURSIVE SplitAt(_, _)
SplitAt(tokens, sep) ==
    IF \E i \in 1..Len(tokens) : tokens[i] = sep
    THEN LET i == CHOOSE k \in 1..Len(tokens) :
                    tokens[k] = sep /\ \A h \in 1..(k - 1) : tokens[h] # sep
         IN  <<SubSeq(tokens, 1, i - 1)>> \o SplitAt(SubSeq(tokens, i + 1, Len(tokens)), sep)
    ELSE <<tokens>>

\* The query parameters of a URL, in order, each [name, value]
UrlParams(url) ==
    LET pieces == SplitAt(SplitAt(url, "?")[2], "&")
    IN  [i \in 1..Len(pieces) |->
            [name |-> pieces[i][1], value |-> SubSeq(pieces[i], 3, Len(pieces[i]))]]

UrlPath(url) == SplitAt(url, "?")[1]

\* The parameters the claim lists, in the claim's order
RECURSIVE ClaimedOptionParams(_)
ClaimedOptionParams(options) ==
    IF options = <<>> THEN <<>>
    ELSE (IF Head(options).value.t \in {"undefined", "null"} THEN <<>>
          ELSE <<[name |-> "$" \o Head(options).key,
                  value |-> ToTokens(Head(options).value)]>>)
         \o ClaimedOptionParams(Tail(options))

ClaimedParams(args) ==
    (IF args.filters # <<>>
     THEN <<[name |-> "$filter", value |-> JoinTokens(args.filters, <<" and ">>)]>>
     ELSE <<>>)
    \o (IF args.expands # <<>>
        THEN <<[name |-> "$expand", value |-> JoinTokens(args.expands, <<",">>)]>>
        ELSE <<>>)
    \o ClaimedOptionParams(args.options)
    \o <<[name |-> "$format", value |-> <<"json">>]>>

NoNameTwice(params) ==
    \A i, j \in 1..Len(params) : i # j => params[i].name # params[j].name

\* An option that is emitted under the name of a parameter buildQuery emits
\* itself: format always, filter and expand when their list is non-empty.
OptionTakesBuiltInName(args) ==
    \E i \in 1..Len(args.options) :
        /\ args.options[i].value.t \notin {"undefined", "null"}
        /\ \/ args.options[i].key = "format"
           \/ args.options[i].key = "filter" /\ args.filters # <<>>
           \/ args.options[i].key = "expand" /\ args.expands # <<>>

\* C4 as claimed: the URL's parameters are $filter (iff filters), $expand
\* (iff expands), one $key=value per option that is neither undefined nor
\* null, and $format=json last, in this order, and no parameter name occurs
\* twice, for any options map.
C4_Original ==
    query # Undefined =>
        /\ UrlParams(query.v) = ClaimedParams(buildArgs)
        /\ NoNameTwice(UrlParams(query.v))

\* C4 as amended: the same parameters in the same order; no parameter name
\* occurs twice unless an option that is neither undefined nor null is
\* itself named format, or filter with a non-empty filters list, or expand
\* with a non-empty expands list.
C4_Params ==
    query # Undefined =>
        /\ UrlParams(query.v) = ClaimedParams(buildArgs)
        /\ UrlPath(query.v) = BASE_API_URL \o <<"/">> \o buildArgs.endpoint
        /\ (NoNameTwice(UrlParams(query.v)) <=> ~OptionTakesBuiltInName(buildArgs))

\* C4 witness: the call of the example, one filter, one expand,
\* {top: 10, skip: 0}, has returned with $skip=0 and $format=json last.
C4_Witness ==
    /\ query # Undefined
    /\ buildArgs.filters = <<BaseFilter>>
    /\ buildArgs.expands = <<ActorExpand>>
    /\ buildArgs.options = <<Option("top", Num(10)), Option("skip", Num(0))>>
    /\ Len(UrlParams(query.v)) = 5
    /\ UrlParams(query.v)[4] = [name |-> "$skip", value |-> <<"0">>]
    /\ UrlParams(query.v)[5] = [name |-> "$format", value |-> <<"json">>]

----------------------------------------------------------------------------
(* Properties of the routes *)

UpstreamRoutes == {"attendance", "activity", "stats"}

Responded(r) == requests[r].pc = "responded"

\* The error of a response body, undefined in a success body
ErrorOf(res) == IF res.body.success THEN Undefined ELSE res.body.error

NonSuccessStatus(reply) ==
    reply.kind = "response" /\ (reply.status < 200 \/ reply.status > 299)

\* C5: a route that has answered after one of its upstream calls came back
\* with a non-success status (the count query of /api/attendance, its second
\* call, excepted) has answered 500 with success false and an error that
\* carries the status code and text.
C5_UpstreamFailureIs500 ==
    \A r \in DOMAIN requests :
        (Responded(r) /\ requests[r].route \in UpstreamRoutes) =>
            \A i \in 1..Len(requests[r].replies) :
                (/\ NonSuccessStatus(requests[r].replies[i])
                 /\ ~(requests[r].route = "attendance" /\ i = 2)) =>
                    /\ requests[r].res.status = 500
                    /\ requests[r].res.body.success = FALSE
                    /\ ErrorOf(requests[r].res) =
                         Str(<<"API request failed: ",
                               ToString(requests[r].replies[i].status), " ",
                               requests[r].replies[i].statusText>>)

\* The data query of an attendance request has succeeded
DataQuerySucceeded(r) ==
    /\ requests[r].route = "attendance"
    /\ requests[r].data # Undefined

\* C6: once the data query has succeeded, the count query is issued if and
\* only if skip denotes the number 0 (absent, or a value whose echoed
\* metadata.skip is 0); with a non-zero skip totalCount is null.
C6_CountIffSkipZero ==
    \A r \in DOMAIN requests :
        DataQuerySucceeded(r) =>
            LET zero == ParseInt(Skip(requests[r].params)) = Num(0)
            IN  /\ (Len(requests[r].calls) = 2) <=> zero
                /\ (Responded(r) /\ ~zero) =>
                       requests[r].res.body.metadata.totalCount = Null

CountQueryFailed(reply) ==
    \/ reply.kind = "throw"
    \/ NonSuccessStatus(reply)
    \/ reply.body = Unparsable

\* C7: an attendance request that has answered after its count query came
\* back answers 200 with success true, with the rows, totalActivities and
\* totalRegistrations that the data reply alone determines, whatever the
\* count reply was; when the count query failed (fetch threw, non-success
\* status, unparsable body) totalCount is null.
C7_CountFailureRecovered ==
    \A r \in DOMAIN requests :
        (Responded(r) /\ requests[r].route = "attendance"
            /\ Len(requests[r].replies) = 2) =>
            LET page == requests[r].replies[1].body.value
                body == requests[r].res.body
            IN  /\ requests[r].res.status = 200
                /\ body.success = TRUE
                /\ body.data = processAttendanceData(IF page.t = "array" THEN page.items ELSE <<>>)
                /\ body.metadata.totalActivities =
                     Num(IF page.t = "array" THEN Len(page.items) ELSE 0)
                /\ body.metadata.totalRegistrations = Num(Len(body.data))
                /\ CountQueryFailed(requests[r].replies[2]) =>
                       body.metadata.totalCount = Null

\* C7 witness: the count reply had status 200 and a body that is not JSON,
\* and the request has answered 200 with its one row and totalCount null.
C7_Witness ==
    \E r \in DOMAIN requests :
        /\ Responded(r)
        /\ requests[r].route = "attendance"
        /\ Len(requests[r].replies) = 2
        /\ requests[r].replies[2] = Response(200, "OK", Unparsable)
        /\ requests[r].res.status = 200
        /\ Len(requests[r].res.body.data) = 1
        /\ requests[r].res.body.metadata.totalCount = Null

\* A request of an upstream route that was handled with fetch unset has
\* issued no upstream call and has answered 500 with the not-yet-loaded
\* message; one handled with fetch set never answers with that message.
C8_GateState ==
    \A r \in DOMAIN requests :
        (requests[r].pc # "idle" /\ requests[r].route \in UpstreamRoutes) =>
            IF requests[r].fetchAtEntry = Bool(FALSE)
            THEN /\ Responded(r)
                 /\ requests[r].calls = <<>>
                 /\ requests[r].res.status = 500
                 /\ ErrorOf(requests[r].res) = Str(NotLoadedMessage)
            ELSE Responded(r) => ErrorOf(requests[r].res) # Str(NotLoadedMessage)

\* fetch, once set, keeps its value, and only a step of the startup import
\* writes it; no step of a request handler does.
C8_FlagStep ==
    /\ fetch # Undefined => fetch' = fetch
    /\ fetch' # fetch =>
         /\ startup = "importing"
         /\ startup' = "loaded"
         /\ requests' = requests

\* C8: for every interleaving of the startup import with the requests, the
\* fetch flag gates all upstream access (C8_GateState in every state), it
\* is set at most once, by startup code only, and is never unset
\* (C8_FlagStep in every step).
C8_FetchGate == []C8_GateState /\ [][C8_FlagStep]_vars

\* C8 witness: fetch is set, one request was refused with the
\* not-yet-loaded message and another, handled after the flag was set, has
\* its upstream call in flight.
C8_Witness ==
    /\ fetch # Undefined
    /\ \E r \in DOMAIN requests :
         /\ Responded(r)
         /\ requests[r].route \in UpstreamRoutes
         /\ ErrorOf(requests[r].res) = Str(NotLoadedMessage)
    /\ \E r \in DOMAIN requests :
         /\ requests[r].pc \in {"awaitData", "awaitActivity", "awaitStatsCount"}
         /\ requests[r].fetchAtEntry = Bool(TRUE)
         /\ Len(requests[r].calls) = 1

\* The $filter clause of a URL holds the base filter as one of its
\* and-joined terms
HasBaseFilter(url) ==
    \E i \in 1..Len(UrlParams(url)) :
        /\ UrlParams(url)[i].name = "$filter"
        /\ \E k \in 1..Len(SplitAt(UrlParams(url)[i].value, " and ")) :
             SplitAt(UrlParams(url)[i].value, " and ")[k] = <<"verwijderd eq false">>

\* C9: every upstream query any route has issued against Activiteit (the
\* attendance data and count queries, both statistics queries, the
\* single-activity lookup) holds the base filter verwijderd eq false.
C9_BaseFilterAlways ==
    \A r \in DOMAIN requests :
        \A i \in 1..Len(requests[r].calls) : HasBaseFilter(requests[r].calls[i].v)

----------------------------------------------------------------------------
(* The order of the upstream calls of one request. The queries are told
   apart by what their URLs hold, read back from the URL. *)

HasParam(url, name) ==
    \E i \in 1..Len(UrlParams(url)) : UrlParams(url)[i].name = name

\* The page query of /api/attendance: actors expanded, ordered, no count
IsDataQuery(url) ==
    HasParam(url, "$expand") /\ HasParam(url, "$orderby") /\ ~HasParam(url, "$count")

\* A count query: $count, nothing expanded
IsCountQuery(url) == HasParam(url, "$count") /\ ~HasParam(url, "$expand")

\* The sample query of /api/stats: actors expanded, no count, not ordered
IsSampleQuery(url) ==
    HasParam(url, "$expand") /\ ~HasParam(url, "$count") /\ ~HasParam(url, "$orderby")

\* fetch threw, or the status was not a success, or the body was not JSON
CallFailed(reply) ==
    reply.kind = "throw" \/ NonSuccessStatus(reply) \/ reply.body = Unparsable

C12_Order ==
    \A r \in DOMAIN requests :
        LET slot == requests[r]
            calls == slot.calls
            replies == slot.replies
            n == Len(calls)
            m == Len(replies)
        IN  /\ m <= n /\ n <= m + 1
            /\ (n = m + 1) <=> slot.pc \in {"awaitData", "awaitCount", "awaitActivity",
                                            "awaitStatsCount", "awaitSample"}
            /\ \A i, j \in 1..n : i # j => calls[i] # calls[j]
            /\ slot.route \notin UpstreamRoutes => n = 0
            /\ slot.route = "attendance" =>
                 /\ n <= 2
                 /\ n >= 1 => IsDataQuery(calls[1].v)
                 /\ (m >= 1 /\ CallFailed(replies[1])) => n = 1
                 /\ n = 2 =>
                      /\ IsCountQuery(calls[2].v)
                      /\ replies[1].kind = "response"
                      /\ replies[1].status \in 200..299
                      /\ LET page == replies[1].body.value
                         IN  slot.rows = processAttendanceData(
                                 IF page.t = "array" THEN page.items ELSE <<>>)
            /\ slot.route = "activity" =>
                 /\ n <= 1
                 /\ slot.fetchAtEntry = Bool(TRUE) => n = 1
            /\ slot.route = "stats" =>
                 /\ n <= 2
                 /\ n >= 1 => IsCountQuery(calls[1].v)
                 /\ n = 2 => IsSampleQuery(calls[2].v) /\ m >= 1

C12_Step ==
    \A r \in DOMAIN requests :
        LET old == requests[r]
            new == requests'[r]
        IN  \/ new.calls = old.calls
            \/ new.pc = "idle"
            \/ /\ Len(new.calls) = Len(old.calls) + 1
               /\ SubSeq(new.calls, 1, Len(old.calls)) = old.calls
               /\ Len(new.replies) = Len(old.calls)
               /\ old.pc # "idle" => new.route = old.route

\* C12: the upstream calls of one request go out one at a time, each only
\* when every earlier call of the request has been answered, and none is
\* issued twice. An attendance request issues the data query first and at
\* most one count query, the count query only after the data reply came with
\* a success status and its records were flattened, and nothing after a
\* failed data query; a single-activity request that gets past the fetch
\* check issues exactly one call; a statistics request issues the count
\* query and after it the sample query.
C12_SequentialCalls == []C12_Order /\ [][C12_Step]_vars

\* C12 witness: an attendance request has answered after issuing the data
\* query and then the count query, each answered in turn.
C12_Witness ==
    \E r \in DOMAIN requests :
        /\ Responded(r)
        /\ requests[r].route = "attendance"
        /\ Len(requests[r].calls) = 2
        /\ Len(requests[r].replies) = 2
        /\ requests[r].res.status = 200

====
